---- MODULE Spec2Model ----
(***************************************************************************)
(* Model of hercules' parameter-grid index: ConfigList.add_config          *)
(* (simconfig.py) and Dataset (dataset.py): the index build, the three     *)
(* lookup modes of get_path, the iterator protocol and dump/load.          *)
(*                                                                         *)
(* Numbers are exact rationals counted in quarters (1 is 4, 1.5 is 6), so  *)
(* that every axis value of the input domain and every midpoint between    *)
(* two axis values is an integer of the model.  A Python number carries    *)
(* its type ("int" or "float"): numpy takes an axis' dtype from it.        *)
(***************************************************************************)
EXTENDS Integers, Sequences, FiniteSets, TLC

VARIABLES
    config_list,   \* the ConfigList the Dataset was constructed from
    d,             \* the Dataset object (its instance attributes)
    ret,           \* the last call on the Dataset: what was called and what came back
    it,            \* per consumer: what its loop over the Dataset has seen so far
    disk,          \* directory -> content of <directory>/index.he
    loaded         \* the object returned by the last Dataset.load

vars == <<config_list, d, ret, it, disk, loaded>>

---------------------------------------------------------------------------
(* Bounds of the model *)

\* most runs (configurations) added to the ConfigList
MaxRuns == 4

\* most entries (or errors) a loop takes from next() before it is given up
MaxSteps == 6

\* most samples in a raw block of a record
MaxBlock == 4

\* most complex samples of one channel in one record of a stream
MaxRecord == 3

---------------------------------------------------------------------------
(* Python values *)

\* quarters per unit
Unit == 2 * 2

PyInt(n) == [q |-> n * Unit, ty |-> "int"]

\* a float given in quarters
PyFloat(q) == [q |-> q, ty |-> "float"]

None == [ty |-> "None"]

\* the k-th of the strings used as parameter values; q stands for the string
\* in comparisons and as a dict key, above every number used
PyStr(k) == [q |-> (1000 + k) * Unit, ty |-> "str"]

\* ==/hash of Python numbers: 1 == 1.0 and hash(1) == hash(1.0), so a dict
\* key is the number's value whatever its type
KeyOf(v) == v.q

\* tuple(values) as a dict key
tuple(vals) == [i \in DOMAIN vals |-> KeyOf(vals[i])]

\* numbers.Number
isNumber(v) == v.ty \in {"int", "float"}

\* C cast of a float to an integer: towards zero
TruncQ(q) == IF q >= 0 THEN (q \div Unit) * Unit ELSE -(((-q) \div Unit) * Unit)

\* numpy's store of a Python number into an array of the given dtype
\* (a[i] = v casts silently)
CastTo(dtype, v) == IF dtype = "int" THEN TruncQ(v.q) ELSE v.q

\* pathlib: directory / name
PathJoin(dir, rel) == <<dir, rel>>

\* f'run{n}'
RunName(n) == <<"run", n>>

---------------------------------------------------------------------------
(* Sequences and sets *)

RECURSIVE SetToSortedSeq(_)
SetToSortedSeq(S) ==
    IF S = {} THEN <<>>
    ELSE LET m == CHOOSE x \in S : \A y \in S : x <= y
         IN  <<m>> \o SetToSortedSeq(S \ {m})

Range(s) == {s[i] : i \in DOMAIN s}

\* np.sort(np.unique(a)): the distinct elements, ascending
SortUnique(a) == SetToSortedSeq(Range(a))

RECURSIVE Product(_)
Product(s) == IF s = <<>> THEN 1 ELSE Head(s) * Product(Tail(s))

---------------------------------------------------------------------------
(* SimpleSimConfig and ConfigList (simconfig.py) *)

\* SimpleSimConfig(**kwargs): config_data is the keyword mapping in call
\* order, a sequence of <<key, value>>
SimpleSimConfig(kwargs) ==
    [type |-> "SimpleSimConfig", sim_name |-> None, meta_data |-> {},
     config_data |-> kwargs]

\* SimConfig(..), the configuration of a Kassiopeia and Locust simulation:
\* derived is the metadata get_meta_data reads from the wrapped configurations
\* (trap, n-channels, ..), meta_data its _extra_meta_data, config_data what
\* get_config_data computes
SimConfig(derived, config_data) ==
    [type |-> "SimConfig", sim_name |-> None, meta_data |-> {},
     derived |-> derived, config_data |-> config_data]

\* dict.keys() as compared by ==: a set
keys(cd) == {cd[i][1] : i \in DOMAIN cd}

\* dict.values(), in the mapping's order
values(cd) == [i \in DOMAIN cd |-> cd[i][2]]

\* list(dict.keys()), in the mapping's order
key_list(cd) == [i \in DOMAIN cd |-> cd[i][1]]

\* cd[k]
item(cd, k) == LET i == CHOOSE j \in DOMAIN cd : cd[j][1] = k IN cd[i][2]

\* ConfigList(**kwargs), with the version entries _add_version_metadata adds
VersionMeta ==
    {<<"hercules-version", "v">>, <<"hexbug-version", "v">>,
     <<"python-script-version", "v">>, <<"python-script-dir", "p">>}

\* dict.update on mappings held as sets of <<key, value>>
update(m, other) ==
    {e \in m : \A o \in other : o[1] # e[1]} \cup other

\* config.get_meta_data(): a SimConfig reports its extra metadata updated
\* with the derived entries, a SimpleSimConfig its _meta_data
get_meta_data(config) ==
    IF config.type = "SimConfig" THEN update(config.meta_data, config.derived)
    ELSE config.meta_data

\* add_meta_data that leaves the configuration's metadata as it is
add_meta_data_ignored(config, meta_data) == config

\* config.add_meta_data(meta_data): the (extra) metadata is replaced
add_meta_data(config, meta_data) == [config EXCEPT !.meta_data = meta_data]

ConfigList(kwargs) ==
    [config_list |-> <<>>, meta_data |-> update(kwargs, VersionMeta),
     extra_meta_data |-> {}, config_list_type |-> "NoneType",
     config_data_keys |-> <<>>]

\* add_config without the comparison of the configuration data keys
add_config_keys_unchecked(cl, config) ==
    LET n    == Len(cl.config_list)
        cl1  == IF n = 0
                THEN [cl EXCEPT !.extra_meta_data = get_meta_data(config),
                                !.meta_data = update(cl.meta_data, get_meta_data(config)),
                                !.config_list_type = config.type,
                                !.config_data_keys = key_list(config.config_data)]
                ELSE cl
    IN  IF config.type # cl1.config_list_type
        THEN [cl |-> cl1, raised |-> "TypeError"]
        ELSE IF get_meta_data(config) # cl1.extra_meta_data
        THEN [cl |-> cl1, raised |-> "RuntimeError"]
        ELSE [cl |-> [cl1 EXCEPT !.config_list =
                        Append(cl1.config_list,
                               [add_meta_data(config, cl1.meta_data)
                                   EXCEPT !.sim_name = RunName(n)])],
              raised |-> ""]

\* ConfigList.add_config of an object that is not in the list: the list
\* after the call and the exception raised ("" for none).  The first
\* configuration sets the list's type, metadata and keys before the three
\* checks run.
add_config(cl, config) ==
    LET n    == Len(cl.config_list)
        cl1  == IF n = 0
                THEN [cl EXCEPT !.extra_meta_data = get_meta_data(config),
                                !.meta_data = update(cl.meta_data, get_meta_data(config)),
                                !.config_list_type = config.type,
                                !.config_data_keys = key_list(config.config_data)]
                ELSE cl
    IN  IF config.type # cl1.config_list_type
        THEN [cl |-> cl1, raised |-> "TypeError"]
        ELSE IF get_meta_data(config) # cl1.extra_meta_data
        THEN [cl |-> cl1, raised |-> "RuntimeError"]
        ELSE IF keys(config.config_data) # Range(cl1.config_data_keys)
        THEN [cl |-> cl1, raised |-> "RuntimeError"]
        ELSE [cl |-> [cl1 EXCEPT !.config_list =
                        Append(cl1.config_list,
                               [add_meta_data(config, cl1.meta_data)
                                   EXCEPT !.sim_name = RunName(n)])],
              raised |-> ""]

\* ConfigList.add_config of the object that is the list's i-th entry: the
\* list holds references, so the metadata and the name the call assigns show
\* in every entry that is this object (entries are equal records exactly when
\* they are one object: distinct objects were named at distinct lengths)
add_config_again(cl, i) ==
    LET config == cl.config_list[i]
        r      == add_config(cl, config)
        new    == r.cl.config_list[Len(r.cl.config_list)]
    IN  IF r.raised # "" THEN r
        ELSE [cl |-> [r.cl EXCEPT !.config_list =
                        [k \in DOMAIN r.cl.config_list |->
                            IF r.cl.config_list[k] = config THEN new
                            ELSE r.cl.config_list[k]]],
              raised |-> ""]

\* the ConfigList after add_config of each configuration of cfgs in turn
RECURSIVE add_all(_, _)
add_all(cl, cfgs) ==
    IF cfgs = <<>> THEN cl
    ELSE add_all(add_config(cl, Head(cfgs)).cl, Tail(cfgs))

---------------------------------------------------------------------------
(* Dataset (dataset.py) *)

\* Dataset._class_version
class_version == "2.0"

\* an instance attribute that has not been assigned yet
Unset == [set |-> FALSE, val |-> <<>>]

Attr(v) == [set |-> TRUE, val |-> v]

\* Dataset._initialize_axes: one array per key, of the length of the list and
\* of the dtype of the FIRST configuration's value (np.empty: the content is
\* unspecified, and _make_index overwrites every row of it); a non-numeric
\* first value gives the list 0..N-1 and switches the interpolation off
\* (self._interpolate is the bound method, always true, so the switch is
\* unconditional)
initialize_axes(keylist, cli, interpolate_arg) ==
    LET config_data0 == cli[1].config_data
        var0(k)      == item(config_data0, keylist[k])
    IN  [axes |-> [k \in DOMAIN keylist |->
                     IF isNumber(var0(k))
                     THEN [dtype |-> var0(k).ty, data |-> [i \in DOMAIN cli |-> 0]]
                     ELSE [dtype |-> "list", data |-> [i \in DOMAIN cli |-> i - 1]]],
         interpolate_axes |->
             interpolate_arg /\ \A k \in DOMAIN keylist : isNumber(var0(k))]

\* fill_index with the bug of keeping the first run of a key
RECURSIVE fill_index_keep_first(_, _, _, _)
fill_index_keep_first(keylist, cli, start, n) ==
    IF n = 0 THEN start
    ELSE LET prev == fill_index_keep_first(keylist, cli, start, n - 1)
             cd   == cli[n].config_data
             key  == tuple(values(cd))
         IN  [axes  |-> [k \in DOMAIN keylist |->
                          [prev.axes[k] EXCEPT !.data[n] =
                              CastTo(prev.axes[k].dtype, item(cd, keylist[k]))]],
              index |-> [t \in DOMAIN prev.index \cup {key} |->
                          IF t \in DOMAIN prev.index THEN prev.index[t]
                          ELSE cli[n].sim_name]]

\* the loop of _make_index over the first n configurations: every value is
\* stored into its key's array at row i (cast to the array's dtype), and the
\* tuple of the configuration's values, in the configuration's own order,
\* becomes the index key of its sim_name; a key seen before is overwritten
RECURSIVE fill_index(_, _, _, _)
fill_index(keylist, cli, start, n) ==
    IF n = 0 THEN start
    ELSE LET prev == fill_index(keylist, cli, start, n - 1)
             cd   == cli[n].config_data
             key  == tuple(values(cd))
         IN  [axes  |-> [k \in DOMAIN keylist |->
                          [prev.axes[k] EXCEPT !.data[n] =
                              CastTo(prev.axes[k].dtype, item(cd, keylist[k]))]],
              index |-> [t \in DOMAIN prev.index \cup {key} |->
                          IF t = key THEN cli[n].sim_name ELSE prev.index[t]]]

\* Constant(x): the callable that returns x whatever it is called with
Constant(x) == [kind |-> "Constant", x |-> x, x_bds2 |-> <<>>]

\* interp1d with the bug of bounds that are not averaged: x_bds = x[1:]
interp1d_upper_bounds(x) ==
    [kind |-> "interp1d", x |-> x,
     x_bds2 |-> [i \in 1..(Len(x) - 1) |-> 2 * x[i + 1]]]

\* scipy's interp1d(x, x, kind='nearest', fill_value='extrapolate'): keeps x
\* and the midpoints x_bds = x[1:]/2 + x[:-1]/2 (held doubled here, so that
\* they stay integers)
interp1d(x) ==
    [kind |-> "interp1d", x |-> x,
     x_bds2 |-> [i \in 1..(Len(x) - 1) |-> x[i] + x[i + 1]]]

\* Dataset._interpolate
interpolate(x) == IF Len(x) > 1 THEN interp1d(x) ELSE Constant(x)

\* Dataset._interpolate_all
interpolate_all(axes) == [k \in DOMAIN axes |-> interpolate(axes[k].data)]

\* Dataset._make_index (with _initialize_axes): the attributes it assigns
make_index(cl, interpolate_arg) ==
    LET keylist == cl.config_data_keys
        cli     == cl.config_list
        ini     == initialize_axes(keylist, cli, interpolate_arg)
        filled  == fill_index(keylist, cli,
                              [axes |-> ini.axes, index |-> <<>>], Len(cli))
        axes    == [k \in DOMAIN keylist |->
                      [filled.axes[k] EXCEPT !.data = SortUnique(filled.axes[k].data)]]
    IN  [index |-> filled.index,
         meta_data |-> cl.meta_data,
         config_data_keys |-> keylist,
         axes |-> axes,
         interpolate_axes |-> ini.interpolate_axes,
         axes_int |-> IF ini.interpolate_axes THEN Attr(interpolate_all(axes))
                      ELSE Unset]

\* Dataset.__init__
Dataset(directory, cl, interpolate_arg) ==
    LET m == make_index(cl, interpolate_arg)
    IN  [directory |-> directory, version |-> class_version,
         interpolate_axes |-> m.interpolate_axes,
         index |-> m.index, meta_data |-> m.meta_data,
         config_data_keys |-> m.config_data_keys,
         axes |-> m.axes, axes_int |-> m.axes_int,
         it_index |-> Unset, it_stop |-> Unset]

\* Dataset.shape
shape(self) == [k \in DOMAIN self.axes |-> Len(self.axes[k].data)]

\* a[p] with the bug of reading one element further on
np_getitem_off_by_one(a, p) ==
    LET n == Len(a)
        i == (p.q \div Unit) + 1
    IN  IF p.ty # "int" \/ i >= n \/ i < -n THEN [raised |-> "IndexError", val |-> 0]
        ELSE [raised |-> "", val |-> a[(IF i < 0 THEN i + n ELSE i) + 1]]

\* numpy's a[p] on a one-dimensional array: a position in -len..len-1 reads
\* an element (a negative one counts from the end), any other position and
\* any position that is not an integer raises IndexError
np_getitem(a, p) ==
    LET n == Len(a)
        i == p.q \div Unit
    IN  IF p.ty # "int" \/ i >= n \/ i < -n THEN [raised |-> "IndexError", val |-> 0]
        ELSE [raised |-> "", val |-> a[(IF i < 0 THEN i + n ELSE i) + 1]]

\* call_nearest with the bug of bounds_error: nothing beyond the last
\* midpoint is clipped to the axis
call_nearest_no_clip(f, qv) ==
    LET below == Cardinality({i \in DOMAIN f.x_bds2 : f.x_bds2[i] < 2 * qv})
    IN  IF below = Len(f.x) - 1 /\ qv > f.x[Len(f.x)] THEN qv ELSE f.x[below + 1]

\* interp1d._call_nearest: searchsorted(x_bds, x_new, side='left') counts the
\* midpoints below x_new, the count is clipped to a position of x
call_nearest(f, qv) ==
    LET below == Cardinality({i \in DOMAIN f.x_bds2 : f.x_bds2[i] < 2 * qv})
        pos   == IF below > Len(f.x) - 1 THEN Len(f.x) - 1 ELSE below
    IN  f.x[pos + 1]

\* resolve_item with the bug of Constant.__call__ returning its argument x
\* in place of self.x
resolve_item_argument(f, v) ==
    IF f.kind = "interp1d"
    THEN [raised |-> "",
          val |-> f.x[(LET below == Cardinality({i \in DOMAIN f.x_bds2 :
                                                   f.x_bds2[i] < 2 * v.q})
                       IN  IF below > Len(f.x) - 1 THEN Len(f.x) - 1 ELSE below) + 1]]
    ELSE [raised |-> "", val |-> v.q]

\* self._axes_int[i](params[i]).item(): the resolver called with a number and
\* the scalar taken from what it returns.  Constant returns its whole array,
\* whose .item() is the element of an array of size 1 and a ValueError of
\* any other size.
resolve_item(f, v) ==
    IF f.kind = "interp1d" THEN [raised |-> "", val |-> call_nearest(f, v.q)]
    ELSE IF Len(f.x) = 1 THEN [raised |-> "", val |-> f.x[1]]
    ELSE [raised |-> "ValueError", val |-> 0]

Raise(name) == [raised |-> name, parameters |-> <<>>, path |-> <<>>]

\* the exception of the first component that raised, "" when none did
FirstRaised(rs) ==
    IF \A i \in DOMAIN rs : rs[i].raised = "" THEN ""
    ELSE rs[CHOOSE i \in DOMAIN rs :
               /\ rs[i].raised # ""
               /\ \A j \in DOMAIN rs : rs[j].raised # "" => i <= j].raised

\* lookup_key without the test for None: a key that was not built gets a path
lookup_key_unchecked(self, key) ==
    [raised |-> "", parameters |-> key,
     path |-> PathJoin(self.directory,
                       IF key \in DOMAIN self.index THEN self.index[key]
                       ELSE RunName(0))]

\* the end of get_path: the exact lookup of the resolved key.  The KeyError
\* names the resolved key: f'{parameters} is not part of the dataset!'
lookup_key(self, key) ==
    IF key \in DOMAIN self.index
    THEN [raised |-> "", parameters |-> key,
          path |-> PathJoin(self.directory, self.index[key])]
    ELSE [raised |-> "KeyError", parameters |-> key, path |-> <<>>]

\* get_path without the length check: a short query resolves the fields it
\* names, a long one runs past the axes
get_path_unchecked_length(self, params, method) ==
    IF method = "interpolated"
    THEN IF ~self.axes_int.set THEN Raise("AttributeError")
         ELSE IF Len(params) > Len(self.axes) THEN Raise("IndexError")
         ELSE LET rs == [i \in DOMAIN params |->
                           resolve_item(self.axes_int.val[i], params[i])]
              IN  IF FirstRaised(rs) # "" THEN Raise(FirstRaised(rs))
                  ELSE lookup_key(self, [i \in DOMAIN params |-> rs[i].val])
    ELSE IF method = "index"
    THEN IF Len(params) > Len(self.axes) THEN Raise("IndexError")
         ELSE LET rs == [i \in DOMAIN params |->
                           np_getitem(self.axes[i].data, params[i])]
              IN  IF FirstRaised(rs) # "" THEN Raise(FirstRaised(rs))
                  ELSE lookup_key(self, [i \in DOMAIN params |-> rs[i].val])
    ELSE IF method = "exact"
    THEN lookup_key(self, tuple(params))
    ELSE Raise("ValueError")

\* Dataset.get_path.  `not self._interpolate` tests the bound method
\* _interpolate, which is always true: that check never raises, and a Dataset
\* without _axes_int fails on the attribute instead.
get_path(self, params, method) ==
    IF Len(params) # Len(self.axes) THEN Raise("ValueError")
    ELSE IF method = "interpolated"
    THEN IF ~self.axes_int.set THEN Raise("AttributeError")
         ELSE LET rs == [i \in DOMAIN params |->
                           resolve_item(self.axes_int.val[i], params[i])]
              IN  IF FirstRaised(rs) # "" THEN Raise(FirstRaised(rs))
                  ELSE lookup_key(self, [i \in DOMAIN params |-> rs[i].val])
    ELSE IF method = "index"
    THEN LET rs == [i \in DOMAIN params |->
                      np_getitem(self.axes[i].data, params[i])]
         IN  IF FirstRaised(rs) # "" THEN Raise(FirstRaised(rs))
             ELSE lookup_key(self, [i \in DOMAIN params |-> rs[i].val])
    ELSE IF method = "exact"
    THEN lookup_key(self, tuple(params))
    ELSE Raise("ValueError")

\* __iter__ that resets the cursor and leaves the stop flag as it is
Dataset_iter_keeping_stop(self) ==
    [self EXCEPT !.it_index = Attr([k \in DOMAIN self.axes |-> 0]),
                 !.it_stop = IF self.it_stop.set THEN self.it_stop ELSE Attr(FALSE)]

\* Dataset.__iter__: the cursor is an attribute of the Dataset itself, and
\* the Dataset is its own iterator
Dataset_iter(self) ==
    [self EXCEPT !.it_index = Attr([k \in DOMAIN self.axes |-> 0]),
                 !.it_stop = Attr(FALSE)]

\* odometer with the bug of carrying from the first position forwards
\* (range(...) not reversed)
RECURSIVE odometer_forwards(_, _, _)
odometer_forwards(idx, shp, i) ==
    LET k == Len(idx) - i + 1
    IN  IF i = 0 THEN idx
        ELSE IF idx[k] + 1 = shp[k]
        THEN odometer_forwards([idx EXCEPT ![k] = 0], shp, i - 1)
        ELSE [idx EXCEPT ![k] = idx[k] + 1]

\* the carry loop of __next__: from the last position backwards, add one and
\* stop unless the position wrapped to zero
RECURSIVE odometer(_, _, _)
odometer(idx, shp, i) ==
    IF i = 0 THEN idx
    ELSE IF idx[i] + 1 = shp[i] THEN odometer([idx EXCEPT ![i] = 0], shp, i - 1)
    ELSE [idx EXCEPT ![i] = idx[i] + 1]

\* __next__ that looks the combination up first and advances the cursor only
\* when the lookup returned
Dataset_next_lookup_first(self) ==
    IF ~self.it_stop.set THEN [self |-> self, out |-> Raise("AttributeError")]
    ELSE IF self.it_stop.val THEN [self |-> self, out |-> Raise("StopIteration")]
    ELSE LET old_index == self.it_index.val
             new_index == odometer(old_index, shape(self), Len(old_index))
             stop      == new_index = [k \in DOMAIN self.axes |-> 0]
             out       == get_path(self, [k \in DOMAIN old_index |-> PyInt(old_index[k])],
                                   "index")
         IN  [self |-> IF out.raised # "" THEN self
                       ELSE [self EXCEPT !.it_index = Attr(new_index),
                                         !.it_stop = Attr(stop)],
              out  |-> out]

\* Dataset.__next__: the Dataset after the call and what the call gave.  The
\* cursor and the stop flag are assigned before get_path is called, so they
\* are advanced also when get_path raises.
Dataset_next(self) ==
    IF ~self.it_stop.set THEN [self |-> self, out |-> Raise("AttributeError")]
    ELSE IF self.it_stop.val THEN [self |-> self, out |-> Raise("StopIteration")]
    ELSE LET old_index == self.it_index.val
             new_index == odometer(old_index, shape(self), Len(old_index))
             stop      == new_index = [k \in DOMAIN self.axes |-> 0]
             self1     == [self EXCEPT !.it_index = Attr(new_index),
                                       !.it_stop = Attr(stop)]
         IN  [self |-> self1,
              out  |-> get_path(self1, [k \in DOMAIN old_index |-> PyInt(old_index[k])],
                                "index")]

\* pickle.dump(self): the object's type and its instance attributes
pickle_dump(self) == [present |-> TRUE, type |-> "Dataset", attrs |-> self]

NoFile == [present |-> FALSE]

\* load with the bug of rebasing to the file, not to its directory
load_rebased_to_file(file, path) ==
    IF ~file.present THEN [raised |-> "FileNotFoundError", instance |-> Unset]
    ELSE IF file.type # "Dataset" THEN [raised |-> "RuntimeError", instance |-> Unset]
    ELSE LET instance == file.attrs
             instance_version ==
                 IF "version" \in DOMAIN instance THEN instance.version ELSE "1.0"
         IN  IF instance_version # class_version
             THEN [raised |-> "RuntimeError", instance |-> Unset]
             ELSE [raised |-> "",
                   instance |-> Attr([instance EXCEPT !.directory = path \o "/index.he"])]

\* load that takes an object without _version to be of the current version
load_version_defaulted(file, path) ==
    IF ~file.present THEN [raised |-> "FileNotFoundError", instance |-> Unset]
    ELSE IF file.type # "Dataset" THEN [raised |-> "RuntimeError", instance |-> Unset]
    ELSE LET instance == file.attrs
             instance_version ==
                 IF "version" \in DOMAIN instance THEN instance.version
                 ELSE class_version
         IN  IF instance_version # class_version
             THEN [raised |-> "RuntimeError", instance |-> Unset]
             ELSE [raised |-> "",
                   instance |-> Attr([f \in DOMAIN instance \cup {"directory"} |->
                                        IF f = "directory" THEN path ELSE instance[f]])]

\* load that keeps the directory the file stored
load_not_rebased(file, path) ==
    IF ~file.present THEN [raised |-> "FileNotFoundError", instance |-> Unset]
    ELSE IF file.type # "Dataset" THEN [raised |-> "RuntimeError", instance |-> Unset]
    ELSE LET instance == file.attrs
             instance_version ==
                 IF "version" \in DOMAIN instance THEN instance.version ELSE "1.0"
         IN  IF instance_version # class_version
             THEN [raised |-> "RuntimeError", instance |-> Unset]
             ELSE [raised |-> "", instance |-> Attr(instance)]

\* Dataset.load: the instance, rebased to the path it was loaded from, or the
\* exception
load(file, path) ==
    IF ~file.present THEN [raised |-> "FileNotFoundError", instance |-> Unset]
    ELSE IF file.type # "Dataset" THEN [raised |-> "RuntimeError", instance |-> Unset]
    ELSE LET instance == file.attrs
             instance_version ==
                 IF "version" \in DOMAIN instance THEN instance.version ELSE "1.0"
         IN  IF instance_version # class_version
             THEN [raised |-> "RuntimeError", instance |-> Unset]
             ELSE [raised |-> "",
                   instance |-> Attr([instance EXCEPT !.directory = path])]

---------------------------------------------------------------------------
(* The egg reader (eggreader.py) *)

\* data[start::2] with every element taken from position 0 on
stride2_from_zero(data, start) ==
    [k \in 1..((Len(data) - start + 1) \div 2) |-> data[2 * k - 1]]

\* data[start::2] of a one-dimensional array, start 0 or 1
stride2(data, start) ==
    [k \in 1..((Len(data) - start + 1) \div 2) |-> data[start + 2 * k - 1]]

\* a + 1j * b of two one-dimensional arrays, as numpy broadcasts them: equal
\* lengths add element by element, an array of length 1 is stretched to the
\* other's length (to nothing when that is 0), other lengths raise ValueError
np_add_1j(a, b) ==
    IF Len(a) = Len(b)
    THEN [raised |-> "", val |-> [k \in DOMAIN a |-> [re |-> a[k], im |-> b[k]]]]
    ELSE IF Len(b) = 1
    THEN [raised |-> "", val |-> [k \in DOMAIN a |-> [re |-> a[k], im |-> b[1]]]]
    ELSE IF Len(a) = 1
    THEN [raised |-> "", val |-> [k \in DOMAIN b |-> [re |-> a[1], im |-> b[k]]]]
    ELSE [raised |-> "ValueError", val |-> <<>>]

\* _to_complex(data): data[::2] + 1j * data[1::2]
to_complex(data) == np_add_1j(stride2(data, 0), stride2(data, 1))

\* LocustP3File._int_max
int_max(bit_depth) == CASE bit_depth = 8 -> 255 [] bit_depth = 16 -> 65535

\* the result of a call that raised
Raised(name) == [raised |-> name, val |-> <<>>]

\* the first exception among the results rs of a loop's steps, "" when none
FirstError(rs) == FirstRaised([i \in DOMAIN rs |-> [raised |-> rs[i].raised]])

\* result = data / self._int_max[bit_depth] * voltage_range for one real code:
\* the quotient, held exactly as num/den (voltage_range is in quarters).  The
\* three attributes are read first (a missing one is a KeyError, as is a bit
\* depth that _int_max does not have); voltage_offset is read and not used.
convert_code(code, attr) ==
    IF {"bit_depth", "voltage_range", "voltage_offset"} \ DOMAIN attr # {}
    THEN Raised("KeyError")
    ELSE IF attr.bit_depth \notin {8, 16} THEN Raised("KeyError")
    ELSE [raised |-> "",
          val |-> [num |-> code * attr.voltage_range,
                   den |-> int_max(attr.bit_depth) * Unit]]

\* _convert_to_voltage(data, channel) on a series of complex samples: the
\* division and the product act on the real and the imaginary part alike
convert_to_voltage(series, attr) ==
    IF convert_code(0, attr).raised # "" THEN Raised(convert_code(0, attr).raised)
    ELSE [raised |-> "",
          val |-> [t \in DOMAIN series |->
                     [re |-> convert_code(series[t].re, attr).val,
                      im |-> convert_code(series[t].im, attr).val]]]

\* temp_data[k::n_ch], k from 0
stride(series, k, n_ch) ==
    [t \in 1..((Len(series) - k + n_ch - 1) \div n_ch) |-> series[k + (t - 1) * n_ch + 1]]

\* temp_data.reshape((n_ch, -1)): n_ch rows of equal length, in order
reshape_rows(series, n_ch) ==
    IF Len(series) % n_ch # 0 THEN Raised("ValueError")
    ELSE LET w == Len(series) \div n_ch
         IN  [raised |-> "",
              val |-> [c \in 1..n_ch |-> SubSeq(series, (c - 1) * w + 1, c * w)]]

\* the body of the loop over the records in _read_ts: the rows appended to
\* temp for one raw block.  For channel format 0 temp_data_copy is emptied
\* in every pass of the loop over k, so what is appended holds the slice of
\* the last k alone.
decode_record(raw, n_ch, ch_format) ==
    LET temp_data == to_complex(raw)
    IN  IF temp_data.raised # "" THEN Raised(temp_data.raised)
        ELSE IF ch_format = 1 THEN reshape_rows(temp_data.val, n_ch)
        ELSE IF ch_format = 0
        THEN [raised |-> "", val |-> <<stride(temp_data.val, n_ch - 1, n_ch)>>]
        ELSE Raised("RuntimeError")

\* LocustP3File._read_ts: data[a][j] is what decode_record gives for record j
\* of acquisition a
read_ts(file) ==
    LET n_ch == Len(file.channels)
        recs == [a \in DOMAIN file.acquisitions |->
                   [j \in DOMAIN file.acquisitions[a] |->
                      decode_record(file.acquisitions[a][j], n_ch, file.channel_format)]]
        errs == {recs[a][j].raised : a \in DOMAIN recs, j \in DOMAIN recs[1]} \ {""}
    IN  IF errs # {} THEN Raised(CHOOSE x \in errs : TRUE)
        ELSE [raised |-> "",
              val |-> [a \in DOMAIN recs |-> [j \in DOMAIN recs[a] |-> recs[a][j].val]]]

\* the number of rows of the array _read_ts returns (its third dimension)
rows_of(data) == Len(data[1][1])

\* LocustP3File.load_ts_stream: for every channel ch of the stream
\* data[:, :, ch, :] (an IndexError when the array has no row ch), converted
\* with the channel's attributes; the result maps ch to an array [a][j][t]
load_ts_stream(file) ==
    LET rt == read_ts(file)
    IN  IF rt.raised # "" THEN Raised(rt.raised)
        ELSE LET per == [c \in DOMAIN file.channels |->
                           IF file.channels[c] >= rows_of(rt.val) THEN Raised("IndexError")
                           ELSE convert_to_voltage(<<>>, file.channel_attrs[c])]
             IN  IF FirstError(per) # "" THEN Raised(FirstError(per))
                 ELSE [raised |-> "",
                       val |-> [c \in DOMAIN file.channels |->
                                  [a \in DOMAIN rt.val |->
                                     [j \in DOMAIN rt.val[a] |->
                                        convert_to_voltage(
                                            rt.val[a][j][file.channels[c] + 1],
                                            file.channel_attrs[c]).val]]]]

\* the records of row c of acquisition a, one after the other:
\* np.swapaxes(data, 1, 2) and np.reshape(data, data.shape[:2] + (-1,))
RECURSIVE concat_records(_, _)
concat_records(recs, c) ==
    IF recs = <<>> THEN <<>> ELSE Head(recs)[c] \o concat_records(Tail(recs), c)

\* LocustP3File.quick_load_ts_stream: an array [a][c][t], row ch of which is
\* converted with the attributes of channel ch (an IndexError when there is
\* no row ch)
quick_load_ts_stream(file) ==
    LET rt == read_ts(file)
    IN  IF rt.raised # "" THEN Raised(rt.raised)
        ELSE LET per == [c \in DOMAIN file.channels |->
                           IF file.channels[c] >= rows_of(rt.val) THEN Raised("IndexError")
                           ELSE convert_to_voltage(<<>>, file.channel_attrs[c])]
             IN  IF FirstError(per) # "" THEN Raised(FirstError(per))
                 ELSE [raised |-> "",
                       val |-> [a \in DOMAIN rt.val |->
                                  [c \in 1..rows_of(rt.val) |->
                                     convert_to_voltage(concat_records(rt.val[a], c),
                                                        file.channel_attrs[c]).val]]]

\* _apply_DFT on one window: the spectrum of these samples (mean removed,
\* transformed, centred, scaled by sqrt(1 / dft_window)), as many bins as
\* samples.  The values of the transform are not computed.
apply_DFT(window, dft_window) ==
    [spectrum_of |-> window, bins |-> Len(window), dft_window |-> dft_window]

\* ts[..., :n_slices * dft_window].reshape((.., n_slices, -1)) and _apply_DFT
\* on a series with n_slices = int(len / dft_window); reshape cannot tell the
\* length of a row when there are no slices
fft_slices(series, dft_window) ==
    LET n_slices == Len(series) \div dft_window
    IN  IF n_slices = 0 THEN Raised("ValueError")
        ELSE [raised |-> "",
              val |-> [k \in 1..n_slices |->
                         apply_DFT(SubSeq(series, (k - 1) * dft_window + 1,
                                          k * dft_window), dft_window)]]

\* LocustP3File.load_fft_stream: the spectra of every record of every channel
load_fft_stream(file, dft_window) ==
    LET ts == load_ts_stream(file)
    IN  IF ts.raised # "" THEN Raised(ts.raised)
        ELSE LET sl == [c \in DOMAIN ts.val |->
                          [a \in DOMAIN ts.val[c] |->
                             [j \in DOMAIN ts.val[c][a] |->
                                fft_slices(ts.val[c][a][j], dft_window)]]]
             IN  IF sl[1][1][1].raised # "" THEN Raised(sl[1][1][1].raised)
                 ELSE [raised |-> "",
                       val |-> [c \in DOMAIN sl |-> [a \in DOMAIN sl[c] |->
                                  [j \in DOMAIN sl[c][a] |-> sl[c][a][j].val]]]]

\* LocustP3File.quick_load_fft_stream: the spectra of the concatenated
\* records of every channel
quick_load_fft_stream(file, dft_window) ==
    LET ts == quick_load_ts_stream(file)
    IN  IF ts.raised # "" THEN Raised(ts.raised)
        ELSE LET sl == [a \in DOMAIN ts.val |-> [c \in DOMAIN ts.val[a] |->
                          fft_slices(ts.val[a][c], dft_window)]]
             IN  IF sl[1][1].raised # "" THEN Raised(sl[1][1].raised)
                 ELSE [raised |-> "",
                       val |-> [a \in DOMAIN sl |-> [c \in DOMAIN sl[a] |-> sl[a][c].val]]]

---------------------------------------------------------------------------
(* The inputs *)

\* SimpleSimConfig(x=.., y=.., z=..)
Config(x, y, z) == SimpleSimConfig(<<(<<"x", x>>), (<<"y", y>>), (<<"z", z>>)>>)

\* the configurations a run may have: the grid of the repository's test
\* (x in 0..1 as int, y = 3. as float, z in 5..6 as int) and one run whose x
\* is the float 1.5
Configs ==
    {Config(PyInt(x), PyFloat(3 * Unit), PyInt(z)) : x \in {0, 1}, z \in {5, 6}}
    \cup {Config(PyFloat(6), PyFloat(3 * Unit), PyInt(5))}

\* ConfigList(sr=200., info='hello')
\* the same fields, the mapping given in the order z, y, x
ConfigZYX(x, y, z) == SimpleSimConfig(<<(<<"z", z>>), (<<"y", y>>), (<<"x", x>>)>>)

\* runs of three numeric fields, the mapping in either order
OrderedConfigs ==
    {Config(PyInt(x), PyFloat(3 * Unit), PyInt(5)) : x \in {0, 1}}
    \cup {ConfigZYX(PyInt(x), PyFloat(3 * Unit), PyInt(5)) : x \in {0, 1}}

\* runs of a numeric field and a field whose values are strings
LabelledConfigs ==
    {SimpleSimConfig(<<(<<"x", PyInt(x)>>), (<<"label", PyStr(l)>>)>>) :
        x \in {0, 1}, l \in {1, 2}}

ListKwargs == {<<"sr", "200.0">>, <<"info", "hello">>}

\* the keywords a ConfigList may be constructed with: those above, and with
\* an entry the first configuration's metadata overwrites
ListKwargsChoices == {ListKwargs, ListKwargs \cup {<<"trap", "nonsense">>}}

\* the configurations a caller may construct and pass to add_config: two of
\* the grid, one with the single key x (the test's SimpleSimConfig(x='foo')),
\* one with the keys in another order, one given metadata of its own, one
\* given the metadata of a list (as from_json of a configuration written
\* after it was added to a list), and two SimConfig with different traps
AnyConfigs ==
    {Config(PyInt(0), PyFloat(3 * Unit), PyInt(5)),
     Config(PyInt(1), PyFloat(3 * Unit), PyInt(6)),
     SimpleSimConfig(<<(<<"x", PyInt(0)>>)>>),
     SimpleSimConfig(<<(<<"z", PyInt(5)>>), (<<"y", PyFloat(3 * Unit)>>),
                       (<<"x", PyInt(1)>>)>>),
     add_meta_data(Config(PyInt(0), PyFloat(3 * Unit), PyInt(6)),
                   {<<"n_channels", "3">>}),
     add_meta_data(Config(PyInt(1), PyFloat(3 * Unit), PyInt(5)),
                   update(ListKwargs, VersionMeta)),
     SimConfig({<<"trap", "FreeSpaceGeometry_V00_00_10.xml">>},
               <<(<<"x", PyInt(0)>>), (<<"y", PyFloat(3 * Unit)>>), (<<"z", PyInt(5)>>)>>),
     SimConfig({<<"trap", "other.xml">>},
               <<(<<"x", PyInt(0)>>), (<<"y", PyFloat(3 * Unit)>>), (<<"z", PyInt(5)>>)>>)}

\* the values of a raw sample
Samples == 1..4

\* the raw blocks of a record: every sequence of at most MaxBlock samples
Blocks == UNION {[1..n -> Samples] : n \in 0..MaxBlock}

\* the attributes of channel 0 and channel 1: the spec's example (bit depth
\* 16, range 2.0, offset 0.0) and an 8 bit channel of range 1.0, offset 0.5
ChannelAttrs ==
    <<[bit_depth |-> 16, voltage_range |-> 2 * Unit, voltage_offset |-> 0],
      [bit_depth |-> 8, voltage_range |-> Unit, voltage_offset |-> 2]>>

\* raw block j (from 0) of an acquisition: len codes, no two alike in a file
RawBlock(j, len) == [i \in 1..len |-> 100 * j + i]

\* an egg file of one stream with the channels 0..n_ch-1 and one acquisition
\* of n_records records, each of record_size complex samples per channel
EggFile(n_ch, ch_format, n_records, record_size) ==
    [channels |-> [c \in 1..n_ch |-> c - 1],
     channel_format |-> ch_format,
     channel_attrs |-> SubSeq(ChannelAttrs, 1, n_ch),
     acquisitions |-> <<[j \in 1..n_records |->
                           RawBlock(j - 1, 2 * n_ch * record_size)]>>]

\* the files read: one or two channels, channel format 0, 1 or the invalid 2
EggFiles ==
    {EggFile(n_ch, f, r, sz) : n_ch \in 1..2, f \in 0..2, r \in 1..2, sz \in 1..MaxRecord}

\* the DFT windows asked for
Windows == 1..(MaxRecord + 1)

\* the raw codes converted on their own: the ends of the 8 and 16 bit ranges
Codes == {0, 1, 255, 65535}

\* the channel attributes they are converted with: those above, one set
\* without voltage_offset and one of a bit depth _int_max does not have
AttrChoices ==
    {ChannelAttrs[1], ChannelAttrs[2],
     [bit_depth |-> 16, voltage_range |-> 2 * Unit],
     [bit_depth |-> 12, voltage_range |-> 2 * Unit, voltage_offset |-> 0]}

Directories == {"test_directory", "elsewhere"}

Methods == {"interpolated", "index", "exact"}

\* the queries of each lookup mode.  Exact: the vectors of Configs and one
\* that no run has.
ExactQueries ==
    {<<x, PyFloat(3 * Unit), z>> : x \in {PyInt(0), PyInt(1)}, z \in {PyInt(5), PyInt(6)}}
    \cup {<<PyFloat(6), PyFloat(3 * Unit), PyInt(5)>>,
          <<PyInt(100), PyFloat(3 * Unit), PyInt(5)>>}

\* Snapped: every vector of values an axis can hold, the test's [100, 100,
\* 100], one below every axis, and three between axis values (0.5, 1.25, 0.25
\* for x; 5.5, 5.25, 5.75 for z)
SnapQueries ==
    {<<x, PyFloat(3 * Unit), z>> :
        x \in {PyInt(0), PyInt(1), PyFloat(6)}, z \in {PyInt(5), PyInt(6)}}
    \cup {<<PyInt(100), PyInt(100), PyInt(100)>>,
          <<PyInt(-1), PyInt(-1), PyInt(-1)>>,
          <<PyFloat(2), PyFloat(3 * Unit), PyFloat(22)>>,
          <<PyFloat(5), PyInt(100), PyFloat(21)>>,
          <<PyFloat(1), PyInt(0), PyFloat(23)>>}

\* Index: the positions of the largest grid of Configs (3 x 1 x 2), one past
\* the end of each axis, and one before the start
IndexQueries ==
    {<<PyInt(i), PyInt(0), PyInt(k)>> : i \in 0..2, k \in 0..1}
    \cup {<<PyInt(3), PyInt(0), PyInt(0)>>, <<PyInt(0), PyInt(1), PyInt(0)>>,
          <<PyInt(0), PyInt(0), PyInt(2)>>, <<PyInt(-1), PyInt(0), PyInt(0)>>,
          <<PyInt(0), PyInt(0), PyInt(-1)>>}

Queries(method) ==
    CASE method = "exact" -> ExactQueries
      [] method = "index" -> IndexQueries
      [] OTHER -> SnapQueries

\* queries of the wrong length: one value short, one value long
ArityQueries ==
    {<<PyInt(0), PyFloat(3 * Unit)>>,
     <<PyInt(0), PyFloat(3 * Unit), PyInt(5), PyInt(0)>>}

\* the method names a caller may pass: the three modes and one that is none
AllMethods == Methods \cup {"nearest"}

\* queries of the right length, a few of each mode: exact ones of a vector of
\* Configs and of one no run has, positions in and out of range, and the
\* test's snapped query
SomeQueries(method) ==
    CASE method = "exact" ->
             {<<PyInt(0), PyFloat(3 * Unit), PyInt(5)>>,
              <<PyInt(100), PyFloat(3 * Unit), PyInt(5)>>}
      [] method = "index" ->
             {<<PyInt(0), PyInt(0), PyInt(0)>>, <<PyInt(1), PyInt(0), PyInt(1)>>,
              <<PyInt(3), PyInt(0), PyInt(0)>>}
      [] method = "interpolated" -> {<<PyInt(100), PyInt(100), PyInt(100)>>}
      [] OTHER -> {<<PyInt(0), PyFloat(3 * Unit), PyInt(5)>>}

\* lookups on the Datasets of OrderedConfigs and of LabelledConfigs
BuildQueries(method) ==
    CASE method = "index" ->
           {<<PyInt(0), PyInt(0), PyInt(0)>>, <<PyInt(1), PyInt(0), PyInt(0)>>,
            <<PyInt(0), PyInt(0)>>, <<PyInt(1), PyInt(1)>>}
      [] method = "exact" ->
           {<<PyInt(0), PyFloat(3 * Unit), PyInt(5)>>,
            <<PyInt(1), PyFloat(3 * Unit), PyInt(5)>>,
            <<PyInt(5), PyFloat(3 * Unit), PyInt(1)>>,
            <<PyInt(0), PyStr(1)>>, <<PyInt(1), PyStr(2)>>}
      [] OTHER ->
           {<<PyInt(0), PyFloat(3 * Unit), PyInt(5)>>,
            <<PyInt(100), PyInt(100), PyInt(100)>>,
            <<PyInt(0), PyInt(0)>>}

\* what a caller may pass with a method name, well formed or not
AllQueries(method) == SomeQueries(method) \cup ArityQueries

Consumers == {"a", "b"}

---------------------------------------------------------------------------
(* The state machine *)

NoCall == [op |-> "none"]

Idle == [pc |-> "idle", got |-> <<>>]

\* a ConfigList filled by add_config with 1..MaxRuns configurations, and the
\* Dataset constructed from it
Init ==
    /\ \E n \in 1..MaxRuns : \E cfgs \in [1..n -> Configs] :
          config_list = add_all(ConfigList(ListKwargs), cfgs)
    /\ d = Dataset("test_directory", config_list, TRUE)
    /\ ret = NoCall
    /\ it = [c \in Consumers |-> Idle]
    /\ disk = [p \in Directories |-> NoFile]
    /\ loaded = Unset

\* get_path that enters a resolved vector it did not find into the index
GetPathCall_inserting(params, method) ==
    LET out == get_path(d, params, method)
    IN  /\ ret' = [op |-> "get_path", on |-> "d", params |-> params,
                   method |-> method, out |-> out]
        /\ d' = IF out.raised # "KeyError" THEN d
                ELSE [d EXCEPT !.index =
                        [k \in DOMAIN d.index \cup {out.parameters} |->
                            IF k \in DOMAIN d.index THEN d.index[k] ELSE RunName(0)]]
        /\ UNCHANGED <<config_list, it, disk, loaded>>

\* d.get_path(params, method=method)
GetPathCall(params, method) ==
    /\ ret' = [op |-> "get_path", on |-> "d", params |-> params, method |-> method,
               out |-> get_path(d, params, method)]
    /\ UNCHANGED <<config_list, d, it, disk, loaded>>

\* the loaded object's get_path(params, method=method)
LoadedGetPathCall(params, method) ==
    /\ loaded.set
    /\ ret' = [op |-> "get_path", on |-> "loaded", params |-> params,
               method |-> method, out |-> get_path(loaded.val, params, method)]
    /\ UNCHANGED <<config_list, d, it, disk, loaded>>

\* consumer c begins a loop over d: iter(d)
IterCall(c) ==
    /\ d' = Dataset_iter(d)
    /\ it' = [it EXCEPT ![c] = [pc |-> "running", got |-> <<>>]]
    /\ ret' = [op |-> "iter", by |-> c, was |-> it[c].pc]
    /\ UNCHANGED <<config_list, disk, loaded>>

\* consumer c, in its loop, calls next(d): what it gets (an entry or an
\* exception other than StopIteration) is appended to what it has seen
NextCall(c) ==
    /\ it[c].pc # "idle"
    /\ Len(it[c].got) <= MaxSteps
    /\ LET r == Dataset_next(d)
       IN  /\ d' = r.self
           /\ ret' = [op |-> "next", by |-> c, out |-> r.out]
           /\ it' = [it EXCEPT ![c] =
                       IF r.out.raised = "StopIteration"
                       THEN [pc |-> "stopped", got |-> it[c].got]
                       ELSE [pc |-> it[c].pc, got |-> Append(it[c].got, r.out)]]
    /\ UNCHANGED <<config_list, disk, loaded>>

\* config_list.add_config(config) of a newly constructed configuration
AddConfig(config) ==
    /\ Len(config_list.config_list) < MaxRuns
    /\ LET r == add_config(config_list, config)
       IN  /\ config_list' = r.cl
           /\ ret' = [op |-> "add_config", config |-> config, raised |-> r.raised]
    /\ UNCHANGED <<d, it, disk, loaded>>

\* config_list.add_config(config) of the object that is already the list's
\* i-th entry
AddConfigAgain(i) ==
    /\ Len(config_list.config_list) < MaxRuns
    /\ i \in DOMAIN config_list.config_list
    /\ LET r == add_config_again(config_list, i)
       IN  /\ config_list' = r.cl
           /\ ret' = [op |-> "add_config", config |-> config_list.config_list[i],
                      raised |-> r.raised]
    /\ UNCHANGED <<d, it, disk, loaded>>

\* _to_complex(data) of one raw block
ToComplexCall(data) ==
    /\ ret' = [op |-> "to_complex", data |-> data, out |-> to_complex(data)]
    /\ UNCHANGED <<config_list, d, it, disk, loaded>>

\* _convert_to_voltage of one raw code of a channel with attributes attr
ConvertToVoltageCall(code, attr) ==
    /\ ret' = [op |-> "convert_to_voltage", code |-> code, attr |-> attr,
               out |-> convert_code(code, attr)]
    /\ UNCHANGED <<config_list, d, it, disk, loaded>>

\* LocustP3File(file).load_ts_stream()
LoadTsStreamCall(file) ==
    /\ ret' = [op |-> "load_ts_stream", file |-> file, out |-> load_ts_stream(file)]
    /\ UNCHANGED <<config_list, d, it, disk, loaded>>

\* LocustP3File(file).quick_load_ts_stream()
QuickLoadTsStreamCall(file) ==
    /\ ret' = [op |-> "quick_load_ts_stream", file |-> file,
               out |-> quick_load_ts_stream(file)]
    /\ UNCHANGED <<config_list, d, it, disk, loaded>>

\* LocustP3File(file).load_fft_stream(dft_window)
LoadFftStreamCall(file, dft_window) ==
    /\ ret' = [op |-> "load_fft_stream", file |-> file, dft_window |-> dft_window,
               out |-> load_fft_stream(file, dft_window)]
    /\ UNCHANGED <<config_list, d, it, disk, loaded>>

\* LocustP3File(file).quick_load_fft_stream(dft_window)
QuickLoadFftStreamCall(file, dft_window) ==
    /\ ret' = [op |-> "quick_load_fft_stream", file |-> file,
               dft_window |-> dft_window,
               out |-> quick_load_fft_stream(file, dft_window)]
    /\ UNCHANGED <<config_list, d, it, disk, loaded>>

\* d.dump(): index.he of d's directory holds the pickled object
Dump ==
    /\ disk' = [disk EXCEPT ![d.directory] = pickle_dump(d)]
    /\ ret' = [op |-> "dump"]
    /\ UNCHANGED <<config_list, d, it, loaded>>

\* Dataset.load(path)
Load(path) ==
    /\ LET r == load(disk[path], path)
       IN  /\ ret' = [op |-> "load", path |-> path, raised |-> r.raised]
           /\ loaded' = IF r.raised = "" THEN r.instance ELSE loaded
    /\ UNCHANGED <<config_list, d, it, disk>>

\* what index.he of a directory may hold that is not a dump of this release:
\* the pickle of another type (a dict with a _version entry, a subclass of
\* Dataset), of a Dataset of another release (its _version differs), and of a
\* Dataset written before _version existed (no such attribute)
OtherFiles(self) ==
    {[present |-> TRUE, type |-> "dict", attrs |-> [version |-> class_version]],
     [present |-> TRUE, type |-> "DatasetSubclass", attrs |-> self],
     [present |-> TRUE, type |-> "Dataset", attrs |-> [self EXCEPT !.version = "1.0"]],
     [present |-> TRUE, type |-> "Dataset", attrs |-> [self EXCEPT !.version = "2.1"]],
     [present |-> TRUE, type |-> "Dataset",
      attrs |-> [f \in DOMAIN self \ {"version"} |-> self[f]]]}

\* index.he of path is written by something other than d.dump()
Store(path, file) ==
    /\ disk' = [disk EXCEPT ![path] = file]
    /\ ret' = [op |-> "store"]
    /\ UNCHANGED <<config_list, d, it, loaded>>

\* the campaign is relocated on disk: the directory src becomes dst
Move(src, dst) ==
    /\ src # dst
    /\ disk[src].present
    /\ disk' = [disk EXCEPT ![dst] = disk[src], ![src] = NoFile]
    /\ ret' = [op |-> "move"]
    /\ UNCHANGED <<config_list, d, it, loaded>>

NextLookup == \E m \in Methods : \E q \in Queries(m) : GetPathCall(q, m)

NextLookupAll == \E m \in AllMethods : \E q \in AllQueries(m) : GetPathCall(q, m)

NextIter == IterCall("a") \/ NextCall("a")

NextIter2 == \E c \in Consumers : IterCall(c) \/ NextCall(c)

NextPersist ==
    \/ Dump
    \/ \E p \in Directories : Load(p)
    \/ \E q \in ExactQueries : LoadedGetPathCall(q, "exact")

NextLoad ==
    \/ Dump
    \/ \E p \in Directories : \E f \in OtherFiles(d) : Store(p, f)
    \/ \E p, q \in Directories : Move(p, q)
    \/ \E p \in Directories : Load(p)
    \/ \E q \in ExactQueries : LoadedGetPathCall(q, "exact")

NextConfigList ==
    \/ \E config \in AnyConfigs : AddConfig(config)
    \/ \E i \in 1..MaxRuns : AddConfigAgain(i)

NextEggReader == \E data \in Blocks : ToComplexCall(data)

NextBuild == \E m \in Methods : \E q \in BuildQueries(m) : GetPathCall(q, m)

NextStream ==
    \/ \E code \in Codes : \E attr \in AttrChoices : ConvertToVoltageCall(code, attr)
    \/ \E file \in EggFiles : LoadTsStreamCall(file)
    \/ \E file \in EggFiles : QuickLoadTsStreamCall(file)
    \/ \E file \in EggFiles : \E w \in Windows : LoadFftStreamCall(file, w)
    \/ \E file \in EggFiles : \E w \in Windows : QuickLoadFftStreamCall(file, w)

Next ==
    \/ NextLookup \/ NextLookupAll \/ NextIter2 \/ NextPersist \/ NextLoad
    \/ NextConfigList \/ NextEggReader \/ NextStream \/ NextBuild

\* the whole machine
Spec == Init /\ [][Next]_vars

\* lookups on the constructed Dataset
SpecLookup == Init /\ [][NextLookup]_vars

\* lookups on the constructed Dataset, malformed ones included
SpecLookupAll == Init /\ [][NextLookupAll]_vars

\* one loop over the Dataset
SpecIter == Init /\ [][NextIter]_vars

\* the Dataset of the repository's test, with x in 0..1: run0..run3 are
\* (0,3,5), (0,3,6), (1,3,5), (1,3,6)
TestConfigs ==
    <<Config(PyInt(0), PyFloat(3 * Unit), PyInt(5)),
      Config(PyInt(0), PyFloat(3 * Unit), PyInt(6)),
      Config(PyInt(1), PyFloat(3 * Unit), PyInt(5)),
      Config(PyInt(1), PyFloat(3 * Unit), PyInt(6))>>

InitTest == Init /\ config_list = add_all(ConfigList(ListKwargs), TestConfigs)

\* two loops over the test's Dataset, interleaved
SpecIter2 == InitTest /\ [][NextIter2]_vars

\* dump, load and use of the loaded object
SpecPersist == Init /\ [][NextPersist]_vars

\* a Dataset of one or two runs
InitSmall == Init /\ Len(config_list.config_list) <= 2

\* index.he files of any origin, relocation, load and use of the loaded object
SpecLoad == InitSmall /\ [][NextLoad]_vars

\* a ConfigList as constructed, before any Dataset is built from it
InitConfigList ==
    /\ \E kwargs \in ListKwargsChoices : config_list = ConfigList(kwargs)
    /\ d = Unset
    /\ ret = NoCall
    /\ it = [c \in Consumers |-> Idle]
    /\ disk = [p \in Directories |-> NoFile]
    /\ loaded = Unset

\* the filling of a ConfigList
SpecConfigList == InitConfigList /\ [][NextConfigList]_vars

\* the decoding of raw blocks, apart from any Dataset
SpecEggReader == InitConfigList /\ [][NextEggReader]_vars

\* Dataset(directory, config_list, interpolate) of runs whose mappings are
\* in either order, or have a field of strings, with or without snapping
InitBuild ==
    /\ \E n \in 1..MaxRuns :
          \E cfgs \in [1..n -> OrderedConfigs] \cup [1..n -> LabelledConfigs] :
             config_list = add_all(ConfigList(ListKwargs), cfgs)
    /\ \E interpolate_arg \in BOOLEAN :
          d = Dataset("test_directory", config_list, interpolate_arg)
    /\ ret = NoCall
    /\ it = [c \in Consumers |-> Idle]
    /\ disk = [p \in Directories |-> NoFile]
    /\ loaded = Unset

\* lookups on these Datasets
SpecBuild == InitBuild /\ [][NextBuild]_vars

\* the loaders of an egg file's stream
SpecStream == InitConfigList /\ [][NextStream]_vars

---------------------------------------------------------------------------
(* What the claims speak of *)

\* the runs handed to the index build, in order
Runs == config_list.config_list

\* run i's parameter vector, as the key the build makes of it
VectorOf(i) == tuple(values(Runs[i].config_data))

\* the last call was d.get_path(.., method=m)
IsGetPath(m) == ret.op = "get_path" /\ ret.on = "d" /\ ret.method = m

\* the values the runs have for the k-th key
Observed(k) ==
    {KeyOf(item(Runs[i].config_data, d.config_data_keys[k])) : i \in DOMAIN Runs}

StrictlyIncreasing(s) == \A i, j \in DOMAIN s : i < j => s[i] < s[j]

---------------------------------------------------------------------------
(* C1: exact round trip *)

\* C1 as stated: for every run handed to the build, an exact lookup of the
\* run's vector returns that vector and the directory joined with that run's
\* own path.
C1_ExactRoundTrip ==
    IsGetPath("exact") =>
        \A i \in DOMAIN Runs :
            tuple(ret.params) = VectorOf(i) =>
                /\ ret.out.raised = ""
                /\ ret.out.parameters = VectorOf(i)
                /\ ret.out.path = PathJoin(d.directory, Runs[i].sim_name)

\* C1 amended: an exact lookup of a run's vector returns that vector and the
\* directory joined with the path of the LAST run that was handed in with
\* this vector; it is the run's own path when no later run repeats its
\* vector.
C1_ExactRoundTripLast ==
    IsGetPath("exact") =>
        \A i \in DOMAIN Runs :
            /\ tuple(ret.params) = VectorOf(i)
            /\ \A j \in DOMAIN Runs : j > i => VectorOf(j) # VectorOf(i)
            => /\ ret.out.raised = ""
               /\ ret.out.parameters = VectorOf(i)
               /\ ret.out.path = PathJoin(d.directory, Runs[i].sim_name)

\* an exact lookup of a vector that two runs share has returned
C1_Witness ==
    /\ IsGetPath("exact")
    /\ ret.out.raised = ""
    /\ \E i, j \in DOMAIN Runs :
          i < j /\ VectorOf(i) = VectorOf(j) /\ tuple(ret.params) = VectorOf(i)

---------------------------------------------------------------------------
(* C2: axis invariant *)

\* C2 as stated: every axis is strictly increasing and holds exactly the
\* values observed for its field, whatever the order of the runs.
C2_AxisInvariant ==
    \A k \in DOMAIN d.axes :
        /\ StrictlyIncreasing(d.axes[k].data)
        /\ Range(d.axes[k].data) = Observed(k)

---------------------------------------------------------------------------
(* C3, C4, C5: enumeration *)

\* every vector of in-range positions of the axes
Positions(self) ==
    {p \in [DOMAIN self.axes -> 0..(MaxRuns - 1)] :
        \A k \in DOMAIN p : p[k] < Len(self.axes[k].data)}

\* the axis values at a vector of positions
ValuesAt(self, p) == [k \in DOMAIN p |-> self.axes[k].data[p[k] + 1]]

\* a dense grid: every combination of axis values was built
Dense(self) == \A p \in Positions(self) : ValuesAt(self, p) \in DOMAIN self.index

\* the position vector that is r-th (from 0) in lexicographic order, the last
\* field varying fastest
PosOfRank(shp, r) ==
    [k \in DOMAIN shp |-> (r \div Product(SubSeq(shp, k + 1, Len(shp)))) % shp[k]]

\* the entry of a built combination of positions
EntryAt(self, p) ==
    [raised |-> "", parameters |-> ValuesAt(self, p),
     path |-> PathJoin(self.directory, self.index[ValuesAt(self, p)])]

AsInts(p) == [k \in DOMAIN p |-> PyInt(p[k])]

\* the ranks of the built combinations, ascending
PresentRanks(self) ==
    SetToSortedSeq({r \in 0..(Product(shape(self)) - 1) :
                      ValuesAt(self, PosOfRank(shape(self), r)) \in DOMAIN self.index})

\* C3: a loop over a dense Dataset sees, in its j-th step, the combination
\* of rank j-1 in lexicographic order (last field fastest), which is what
\* get_path gives for these positions in index mode; it never sees more than
\* product(shape) entries and it is not stopped before it has seen them all.
C3_DenseEnumeration ==
    Dense(d) =>
        LET got == it["a"].got
            shp == shape(d)
        IN  /\ Len(got) <= Product(shp)
            /\ \A j \in DOMAIN got :
                  /\ got[j] = EntryAt(d, PosOfRank(shp, j - 1))
                  /\ got[j] = get_path(d, AsInts(PosOfRank(shp, j - 1)), "index")
            /\ it["a"].pc = "stopped" => Len(got) = Product(shp)

\* the loop over a dense grid with two axes of two values has stopped
C3_Witness ==
    /\ Dense(d)
    /\ Cardinality({k \in DOMAIN d.axes : Len(d.axes[k].data) = 2}) = 2
    /\ it["a"].pc = "stopped"
    /\ Len(it["a"].got) = 4

\* C4 as stated: a loop over a Dataset, dense or not, is never given an
\* error for an absent combination, and once stopped it has seen exactly the
\* built combinations in odometer order.
C4_SparseEnumeration ==
    LET got == it["a"].got
        pr  == PresentRanks(d)
    IN  /\ \A j \in DOMAIN got : got[j].raised = ""
        /\ it["a"].pc = "stopped" =>
              got = [j \in DOMAIN pr |-> EntryAt(d, PosOfRank(shape(d), pr[j]))]

\* C5 as stated: each of two interleaved loops over the same Dataset, once
\* stopped, has seen the complete enumeration in order.
C5_IndependentIterators ==
    \A c \in Consumers :
        it[c].pc = "stopped" =>
            it[c].got = [j \in 1..Product(shape(d)) |->
                            EntryAt(d, PosOfRank(shape(d), j - 1))]

---------------------------------------------------------------------------
(* C6..C9: snapped lookup *)

Abs(n) == IF n < 0 THEN -n ELSE n

\* the last call was a snapped lookup that resolved every component (it
\* returned, or the resolved vector was not built)
Snapped == IsGetPath("interpolated") /\ ret.out.raised \in {"", "KeyError"}

AxisSet(k) == Range(d.axes[k].data)

Maximum(S) == CHOOSE x \in S : \A y \in S : y <= x

Minimum(S) == CHOOSE x \in S : \A y \in S : x <= y

\* the test's query [100, 100, 100]
TestQuery == <<PyInt(100), PyInt(100), PyInt(100)>>

\* C6: a snapped lookup resolves every component, to a value of the field's
\* axis that no other axis value is nearer to the query; beyond the axis range
\* that is the axis maximum or minimum.  On the test's grid [100, 100, 100]
\* resolves to (1, 3, 6) and to run3, the run of (1, 3, 6).
C6_SnapNearestClamp ==
    IsGetPath("interpolated") =>
        /\ Snapped
        /\ \A k \in DOMAIN ret.params :
              LET q == ret.params[k].q
                  r == ret.out.parameters[k]
              IN  /\ r \in AxisSet(k)
                  /\ \A a \in AxisSet(k) : Abs(r - q) <= Abs(a - q)
                  /\ q > Maximum(AxisSet(k)) => r = Maximum(AxisSet(k))
                  /\ q < Minimum(AxisSet(k)) => r = Minimum(AxisSet(k))
        /\ Runs = add_all(ConfigList(ListKwargs), TestConfigs).config_list
           /\ ret.params = TestQuery
           => ret.out = [raised |-> "",
                         parameters |-> <<1 * Unit, 3 * Unit, 6 * Unit>>,
                         path |-> PathJoin(d.directory, RunName(3))]

\* [100, 100, 100] was looked up on the test's grid
C6_Witness ==
    /\ IsGetPath("interpolated")
    /\ Runs = add_all(ConfigList(ListKwargs), TestConfigs).config_list
    /\ ret.params = TestQuery
    /\ ret.out.raised = ""

\* the last call was an index lookup with every position in 0..len-1
InRangeIndexCall ==
    /\ IsGetPath("index")
    /\ \A k \in DOMAIN ret.params :
          /\ ret.params[k].q >= 0
          /\ ret.params[k].q \div Unit < Len(d.axes[k].data)

PositionsOf(params) == [k \in DOMAIN params |-> params[k].q \div Unit]

\* C7: on a dense grid an index lookup at in-range positions returns, and
\* returns what the snapped lookup of the axis values at these positions
\* returns.
C7_IndexSnapAgreement ==
    InRangeIndexCall /\ Dense(d) =>
        /\ ret.out.raised = ""
        /\ ret.out =
              get_path(d, [k \in DOMAIN ret.params |->
                             PyFloat(ValuesAt(d, PositionsOf(ret.params))[k])],
                       "interpolated")

\* an index lookup on a dense grid with two axes of two values, at the last
\* position of each
C7_Witness ==
    /\ InRangeIndexCall
    /\ Dense(d)
    /\ Cardinality({k \in DOMAIN d.axes : Len(d.axes[k].data) = 2}) = 2
    /\ \A k \in DOMAIN d.axes : ret.params[k].q \div Unit = Len(d.axes[k].data) - 1

\* C8: a snapped lookup resolves every component that is a value of its
\* field's axis to that value, whatever the length of the axis.
C8_SnapIdempotence ==
    IsGetPath("interpolated") =>
        \A k \in DOMAIN ret.params :
            ret.params[k].q \in AxisSet(k) =>
                Snapped /\ ret.out.parameters[k] = ret.params[k].q

\* a snapped lookup of axis values only, on axes of lengths 1, 2 and 3
C8_Witness ==
    /\ Snapped
    /\ \A k \in DOMAIN ret.params : ret.params[k].q \in AxisSet(k)
    /\ {Len(d.axes[k].data) : k \in DOMAIN d.axes} = {1, 2, 3}

\* C9: a snapped lookup resolves the component of a field whose axis has one
\* value to that value, whatever the query, and the resolution does not
\* raise.
C9_DegenerateAxis ==
    IsGetPath("interpolated") =>
        \A k \in DOMAIN ret.params :
            Len(d.axes[k].data) = 1 =>
                Snapped /\ ret.out.parameters[k] = d.axes[k].data[1]

\* a snapped lookup with a query of 100 for a field whose axis is the single
\* value 3
C9_Witness ==
    /\ Snapped
    /\ \E k \in DOMAIN ret.params :
          /\ Len(d.axes[k].data) = 1
          /\ ret.params[k].q = 100 * Unit
          /\ ret.out.parameters[k] = 3 * Unit

---------------------------------------------------------------------------
(* C10: persistence round trip *)

\* C10: Dataset.load of d's directory after d.dump() returns an object with
\* d's axes, metadata, key ordering and index, and with d's result for every
\* lookup.
C10_PersistRoundTrip ==
    ret.op = "load" /\ ret.path = d.directory /\ disk[d.directory].present =>
        /\ ret.raised = ""
        /\ loaded.set
        /\ loaded.val.axes = d.axes
        /\ loaded.val.meta_data = d.meta_data
        /\ loaded.val.config_data_keys = d.config_data_keys
        /\ loaded.val.index = d.index
        /\ \A m \in Methods : \A q \in Queries(m) :
              get_path(loaded.val, q, m) = get_path(d, q, m)

\* d was dumped and loaded from its directory
C10_Witness ==
    /\ ret.op = "load"
    /\ ret.path = d.directory
    /\ ret.raised = ""
    /\ loaded.set
    /\ Len(Runs) > 1

---------------------------------------------------------------------------
(* C11: the version check of load *)

\* the file is the pickle of a Dataset, exactly, of the current version
CurrentDataset(file) ==
    /\ file.type = "Dataset"
    /\ "version" \in DOMAIN file.attrs
    /\ file.attrs.version = "2.0"

\* C11: Dataset.load of an index.he that holds anything but a Dataset of
\* version '2.0' (another type, another version, or no version at all) raises
\* RuntimeError and returns no object; it succeeds only for a Dataset of
\* version '2.0'.
C11_VersionCheck ==
    ret.op = "load" /\ disk[ret.path].present =>
        /\ ~CurrentDataset(disk[ret.path]) =>
              /\ ret.raised = "RuntimeError"
              /\ ~load(disk[ret.path], ret.path).instance.set
        /\ ret.raised = "" => CurrentDataset(disk[ret.path])

\* a Dataset without a version was loaded, and rejected
C11_Witness ==
    /\ ret.op = "load"
    /\ disk[ret.path].present
    /\ disk[ret.path].type = "Dataset"
    /\ "version" \notin DOMAIN disk[ret.path].attrs
    /\ ret.raised = "RuntimeError"

---------------------------------------------------------------------------
(* C12: load rebases the directory *)

\* C12: after Dataset.load(path) succeeds the object's directory is path,
\* whatever directory the file stored; its index is the stored one, and every
\* path a lookup returns is path joined with the stored relative path.
C12_DirectoryRebase ==
    /\ ret.op = "load" /\ ret.raised = "" =>
          LET stored == disk[ret.path].attrs
          IN  /\ loaded.val.directory = ret.path
              /\ loaded.val.index = stored.index
              /\ \A m \in Methods : \A q \in Queries(m) :
                    LET out == get_path(loaded.val, q, m)
                    IN  out.raised = "" =>
                            out.path = PathJoin(ret.path, stored.index[out.parameters])
    /\ ret.op = "get_path" /\ ret.on = "loaded" /\ ret.out.raised = "" =>
          ret.out.path = PathJoin(loaded.val.directory,
                                  loaded.val.index[ret.out.parameters])

\* a file dumped in one directory was loaded from another
C12_Witness ==
    /\ ret.op = "load"
    /\ ret.raised = ""
    /\ disk[ret.path].attrs.directory # ret.path
    /\ \E q \in ExactQueries : get_path(loaded.val, q, "exact").raised = ""

---------------------------------------------------------------------------
(* C13: the length of a query *)

\* C13: get_path of a query whose length is not the number of fields raises
\* ValueError and returns nothing, in each of the three modes and for a
\* method name that is no mode.
C13_Arity ==
    ret.op = "get_path" /\ ret.on = "d"
    /\ Len(ret.params) # Len(d.config_data_keys) =>
        /\ ret.out.raised = "ValueError"
        /\ ret.out.path = <<>>

\* a query one value short was looked up by position
C13_Witness ==
    /\ IsGetPath("index")
    /\ Len(ret.params) = Len(d.config_data_keys) - 1
    /\ ret.out.raised = "ValueError"

---------------------------------------------------------------------------
(* C14: the positions of an index lookup *)

\* C14: an index lookup with a position outside 0 .. len(axis)-1, negative
\* positions included, raises IndexError.
C14_IndexBounds ==
    IsGetPath("index") /\ Len(ret.params) = Len(d.axes) /\ ~InRangeIndexCall =>
        ret.out.raised = "IndexError"

---------------------------------------------------------------------------
(* C15: a vector that was not built *)

\* the axis values of field k nearest to q
Nearest(k, q) == {a \in AxisSet(k) : \A b \in AxisSet(k) : Abs(a - q) <= Abs(b - q)}

\* the last call resolved its query to a vector: an exact lookup, an index
\* lookup at positions in 0..len-1, or a snapped lookup, of the right length
Resolving ==
    /\ ret.op = "get_path"
    /\ ret.on = "d"
    /\ Len(ret.params) = Len(d.axes)
    /\ IsGetPath("exact") \/ InRangeIndexCall \/ IsGetPath("interpolated")

\* C15: a lookup whose resolved vector (the query in exact mode, the axis
\* values at the positions in index mode, the nearest axis values in snapped
\* mode) was not built raises KeyError; no lookup returns a path for a vector
\* that was not built.
C15_NotFound ==
    Resolving =>
        /\ ret.out.raised \in {"", "KeyError"}
        /\ ret.out.raised = "" <=> ret.out.parameters \in DOMAIN d.index
        /\ ret.out.raised = "KeyError" => ret.out.path = <<>>
        /\ IsGetPath("exact") => ret.out.parameters = tuple(ret.params)
        /\ IsGetPath("index") =>
              ret.out.parameters = ValuesAt(d, PositionsOf(ret.params))
        /\ IsGetPath("interpolated") =>
              \A k \in DOMAIN ret.params :
                  ret.out.parameters[k] \in Nearest(k, ret.params[k].q)

\* an index lookup at positions in range, and a snapped lookup, of a
\* combination of axis values that no run has
C15_Witness ==
    /\ InRangeIndexCall
    /\ ret.out.raised = "KeyError"
    /\ ~Dense(d)
    /\ get_path(d, [k \in DOMAIN ret.params |-> PyFloat(ret.out.parameters[k])],
                "interpolated").raised = "KeyError"

---------------------------------------------------------------------------
(* C16: a lookup changes nothing *)

\* C16: a call of get_path, whatever it returns or raises, leaves the index,
\* the axes, the keys, the metadata and the directory as they were, and the
\* same call made again gives the same result.
C16_LookupFrame ==
    [][ret'.op = "get_path" /\ ret'.on = "d" =>
          /\ d'.index = d.index
          /\ d'.axes = d.axes
          /\ d'.axes_int = d.axes_int
          /\ d'.config_data_keys = d.config_data_keys
          /\ d'.meta_data = d.meta_data
          /\ d'.directory = d.directory
          /\ get_path(d', ret'.params, ret'.method) = ret'.out]_vars

\* a lookup with a method name that is no mode failed
C16_Witness ==
    /\ ret.op = "get_path"
    /\ ret.method \notin Methods
    /\ Len(ret.params) = Len(d.axes)
    /\ ret.out.raised = "ValueError"

---------------------------------------------------------------------------
(* C17: add_config accepts one schema *)

\* C17: add_config to a list that is not empty raises TypeError for a
\* configuration of another type than the first, RuntimeError for one whose
\* metadata or set of keys differs from the first's, and then leaves the list
\* as it was; every configuration it accepts has the type, the metadata and
\* the keys of the first, so all runs of the list have the same set of keys.
C17_SchemaConsistency ==
    [][ret'.op = "add_config" =>
          LET config == ret'.config
              n      == Len(Runs)
          IN  /\ n = 0 =>
                    /\ ret'.raised = ""
                    /\ config_list'.extra_meta_data = get_meta_data(config)
              /\ n > 0 /\ config.type # Runs[1].type => ret'.raised = "TypeError"
              /\ n > 0 /\ config.type = Runs[1].type
                 /\ \/ get_meta_data(config) # config_list.extra_meta_data
                    \/ keys(config.config_data) # keys(Runs[1].config_data)
                 => ret'.raised = "RuntimeError"
              /\ ret'.raised # "" => config_list' = config_list
              /\ ret'.raised = "" => Len(Runs') = n + 1
              /\ \A i \in DOMAIN Runs' :
                    /\ keys(Runs'[i].config_data) = keys(Runs'[1].config_data)
                    /\ Runs'[i].type = Runs'[1].type]_vars

\* a configuration with other keys was rejected by a list of two
C17_Witness ==
    /\ ret.op = "add_config"
    /\ Len(Runs) = 2
    /\ ret.config.type = Runs[1].type
    /\ keys(ret.config.config_data) # keys(Runs[1].config_data)
    /\ ret.raised = "RuntimeError"

---------------------------------------------------------------------------
(* C18: the names of the runs *)

\* C18: the i-th configuration of a ConfigList (from 0) is named run<i>.
C18_RunNaming ==
    \A i \in DOMAIN Runs : Runs[i].sim_name = RunName(i - 1)

---------------------------------------------------------------------------
(* C19: the metadata of the runs *)

\* C19: every configuration of a ConfigList reports the list's metadata,
\* which is the constructor's keywords and the version entries, updated with
\* the metadata of the first configuration.
C19_SharedMetadata ==
    Len(Runs) > 0 =>
        /\ \A i \in DOMAIN Runs : get_meta_data(Runs[i]) = config_list.meta_data
        /\ \E kwargs \in ListKwargsChoices :
              config_list.meta_data =
                  update(update(kwargs, VersionMeta), config_list.extra_meta_data)

\* a list of two SimConfig whose trap replaced the list's own entry
C19_Witness ==
    /\ Len(Runs) = 2
    /\ Runs[1].type = "SimConfig"
    /\ <<"trap", "nonsense">> \notin config_list.meta_data
    /\ \E e \in config_list.meta_data : e[1] = "trap"
    /\ ret.raised = ""

---------------------------------------------------------------------------
(* C20: the complex series of a raw block *)

\* C20: _to_complex of a raw block of even length 2n is a series of length n
\* whose k-th element (from 0) has real part raw[2k] and imaginary part
\* raw[2k+1]; [1, 2, 3, 4] gives [1+2j, 3+4j].
C20_ComplexReconstruction ==
    ret.op = "to_complex" /\ Len(ret.data) % 2 = 0 =>
        /\ ret.out.raised = ""
        /\ Len(ret.out.val) = Len(ret.data) \div 2
        /\ \A k \in 0..(Len(ret.data) \div 2 - 1) :
              ret.out.val[k + 1] = [re |-> ret.data[2 * k + 1], im |-> ret.data[2 * k + 2]]
        /\ ret.data = <<1, 2, 3, 4>> =>
              ret.out.val = <<[re |-> 1, im |-> 2], [re |-> 3, im |-> 4]>>

\* [1, 2, 3, 4] was reconstructed
C20_Witness ==
    /\ ret.op = "to_complex"
    /\ ret.data = <<1, 2, 3, 4>>
    /\ ret.out.raised = ""

---------------------------------------------------------------------------
(* C21: raw blocks of odd length *)

\* C21: _to_complex of a raw block of odd length raises an error and returns
\* no series.
C21_OddLengthRejected ==
    ret.op = "to_complex" /\ Len(ret.data) % 2 = 1 =>
        /\ ret.out.raised # ""
        /\ ret.out.val = <<>>

---------------------------------------------------------------------------
(* C22: the calibration *)

\* max_code of the spec
MaxCode(b) == IF b = 8 THEN 255 ELSE 65535

\* C22: the voltage of raw code c of a channel of bit depth 8 or 16 is
\* c / max_code * voltage_range, plus the voltage offset where the channel
\* has one; with bit depth 16, range 2.0 and offset 0.0, code 65535 gives 2.0
\* and code 0 gives 0.0.
C22_Calibration ==
    ret.op = "convert_to_voltage" /\ ret.attr.bit_depth \in {8, 16} =>
        LET offset == IF "voltage_offset" \in DOMAIN ret.attr
                      THEN ret.attr.voltage_offset ELSE 0
            m      == MaxCode(ret.attr.bit_depth)
        IN  /\ ret.out.raised = ""
            /\ ret.out.val.num * (m * Unit) =
                  (ret.code * ret.attr.voltage_range + offset * m) * ret.out.val.den
            /\ ret.attr = ChannelAttrs[1] /\ ret.code = 65535 =>
                  ret.out.val.num = 2 * ret.out.val.den
            /\ ret.attr = ChannelAttrs[1] /\ ret.code = 0 => ret.out.val.num = 0

---------------------------------------------------------------------------
(* C23: the interleaved layout *)

\* the complex series of record j of the file's acquisition
SeriesOf(file, j) == to_complex(file.acquisitions[1][j]).val

\* C23: for a stream of channel format 0 with n channels every record decodes
\* to n runs, channel k's being the samples at k, k+n, k+2n, .. of the
\* record's complex series, and load_ts_stream returns every channel with
\* these samples, calibrated.
C23_PackedLayout ==
    ret.op = "load_ts_stream" /\ ret.file.channel_format = 0 =>
        LET n == Len(ret.file.channels)
        IN  /\ \A j \in DOMAIN ret.file.acquisitions[1] :
                  LET rec == decode_record(ret.file.acquisitions[1][j], n, 0)
                  IN  /\ rec.raised = ""
                      /\ Len(rec.val) = n
                      /\ \A c \in 1..n :
                            rec.val[c] = stride(SeriesOf(ret.file, j), c - 1, n)
            /\ ret.out.raised = ""
            /\ DOMAIN ret.out.val = 1..n
            /\ \A c \in 1..n : \A j \in DOMAIN ret.file.acquisitions[1] :
                  ret.out.val[c][1][j] =
                      convert_to_voltage(stride(SeriesOf(ret.file, j), c - 1, n),
                                         ret.file.channel_attrs[c]).val

---------------------------------------------------------------------------
(* C24: the windows of the FFT loaders *)

\* the length of the time series the loader slices: a record for
\* load_fft_stream, the records of the acquisition together for
\* quick_load_fft_stream
SeriesLength(file, op) ==
    LET record_size == Len(file.acquisitions[1][1]) \div (2 * Len(file.channels))
    IN  IF op = "load_fft_stream" THEN record_size
        ELSE record_size * Len(file.acquisitions[1])

\* the spectra of the time series ts of length L are floor(L / w) slices of
\* w bins, slice k made of the samples (k-1)w+1 .. kw of ts
SlicedBy(slices, ts, L, w) ==
    /\ Len(ts) = L
    /\ Len(slices) = L \div w
    /\ \A k \in DOMAIN slices :
          /\ slices[k].bins = w
          /\ slices[k].spectrum_of = [i \in 1..w |-> ts[(k - 1) * w + i]]

\* C24: on a stream with a valid channel format, either FFT loader called
\* with a window w no longer than the time series (length L) returns, for
\* every channel, floor(L / w) slices of length w.
C24_WindowDiscard ==
    /\ ret.op \in {"load_fft_stream", "quick_load_fft_stream"}
    /\ ret.file.channel_format \in {0, 1}
    /\ ret.dft_window <= SeriesLength(ret.file, ret.op)
    => LET L == SeriesLength(ret.file, ret.op)
           n == Len(ret.file.channels)
       IN  /\ ret.out.raised = ""
           /\ ret.op = "load_fft_stream" =>
                 /\ DOMAIN ret.out.val = 1..n
                 /\ \A c \in 1..n : \A j \in DOMAIN ret.out.val[c][1] :
                       SlicedBy(ret.out.val[c][1][j],
                                load_ts_stream(ret.file).val[c][1][j],
                                L, ret.dft_window)
           /\ ret.op = "quick_load_fft_stream" =>
                 /\ DOMAIN ret.out.val[1] = 1..n
                 /\ \A c \in 1..n :
                       SlicedBy(ret.out.val[1][c],
                                quick_load_ts_stream(ret.file).val[1][c],
                                L, ret.dft_window)


\* on the streams the loaders can read (channel format 1, or a single
\* channel) the slices are as C24 states
WindowDiscardWhereRead ==
    ret.op \in {"load_fft_stream", "quick_load_fft_stream"}
    /\ (ret.file.channel_format = 0 => Len(ret.file.channels) = 1)
    => C24_WindowDiscard


---------------------------------------------------------------------------
(* C25: the end of an enumeration and its restart *)

\* the step is a call of next() by the loop
IsNextStep == ret'.op = "next" /\ it["a"].pc # "idle"

\* the step is a call of iter() by the loop
IsIterStep == ret'.op = "iter"

AllZeros(self) == [k \in DOMAIN self.axes |-> 0]

\* C25: on a dense grid the next() that follows product(shape) yields of an
\* iteration raises StopIteration, and no earlier one does; the cursor is
\* then back at all zeros; a stopped iteration raises StopIteration on every
\* further next(); iter() starts a new iteration, also after a stop, whose
\* yields are again the complete sequence from the first element on.
C25_StopAndRestart ==
    [][Dense(d) =>
         LET got == it["a"].got
             shp == shape(d)
         IN  /\ it["a"].pc = "stopped" =>
                   /\ Len(got) = Product(shp)
                   /\ Dataset_next(d) = [self |-> d, out |-> Raise("StopIteration")]
             /\ IsNextStep =>
                   /\ ret'.out.raised = "StopIteration" <=> Len(got) = Product(shp)
                   /\ Len(got) < Product(shp) =>
                         /\ ret'.out = EntryAt(d, PosOfRank(shp, Len(got)))
                         /\ it'["a"].got = Append(got, ret'.out)
                   /\ Len(it'["a"].got) = Product(shp) =>
                         /\ d'.it_index = Attr(AllZeros(d))
                         /\ d'.it_stop = Attr(TRUE)
                   /\ ret'.out.raised = "StopIteration" =>
                         it'["a"] = [pc |-> "stopped", got |-> got]
             /\ IsIterStep =>
                   /\ it'["a"] = [pc |-> "running", got |-> <<>>]
                   /\ Dataset_next(d').out = EntryAt(d, PosOfRank(shp, 0))]_vars

\* iter() was called on a stopped iteration over a dense grid of four
\* combinations
C25_Witness ==
    /\ Dense(d)
    /\ Product(shape(d)) = 4
    /\ ret.op = "iter" /\ ret.was = "stopped"
    /\ d.it_index = Attr(AllZeros(d)) /\ d.it_stop = Attr(FALSE)

---------------------------------------------------------------------------
(* C30: the cursor after a failed step *)

\* the rank, in odometer order, of a vector of positions
RankOf(shp, idx) == CHOOSE r \in 0..(Product(shp) - 1) : PosOfRank(shp, r) = idx

\* C30: when a next() ends with the KeyError of the index lookup, the cursor
\* is one combination further in odometer order than before the call, the
\* stop flag is set exactly if the failing combination was the last one, and
\* the next() after it is the lookup of the following combination (or
\* StopIteration), not of the failing one again.
C30_AdvanceOnFailure ==
    [][IsNextStep /\ ret'.out.raised = "KeyError" =>
         LET shp  == shape(d)
             r    == RankOf(shp, d.it_index.val)
             last == r + 1 = Product(shp)
             nxt  == PosOfRank(shp, (r + 1) % Product(shp))
         IN  /\ ValuesAt(d, d.it_index.val) \notin DOMAIN d.index
             /\ d'.it_index = Attr(nxt)
             /\ d'.it_stop = Attr(last)
             /\ d'.index = d.index /\ d'.axes = d.axes
             /\ Dataset_next(d').out =
                   IF last THEN Raise("StopIteration")
                   ELSE get_path(d, AsInts(nxt), "index")
             /\ nxt # d.it_index.val \/ last]_vars

\* a next() has just failed on a combination that was not the last one
C30_Witness ==
    /\ ret.op = "next" /\ ret.out.raised = "KeyError"
    /\ d.it_stop = Attr(FALSE)
    /\ d.it_index.val # AllZeros(d)
    /\ Len(it["a"].got) >= 2


---------------------------------------------------------------------------
(* C26: the index keys and the field order *)

\* the values of a run in the field order of the index
InFieldOrder(self, run) ==
    [k \in DOMAIN self.config_data_keys |->
        KeyOf(item(run.config_data, self.config_data_keys[k]))]

\* C26: the keys of the index are the tuples of the runs' values in the
\* order of config_data_keys, whatever the order of a run's own mapping, and
\* the key of a run leads to the last run that has these values.
C26_KeysInFieldOrder ==
    /\ DOMAIN d.index = {InFieldOrder(d, Runs[i]) : i \in DOMAIN Runs}
    /\ \A i \in DOMAIN Runs :
          /\ InFieldOrder(d, Runs[i]) \in DOMAIN d.index
          /\ \E j \in DOMAIN Runs :
                /\ InFieldOrder(d, Runs[j]) = InFieldOrder(d, Runs[i])
                /\ d.index[InFieldOrder(d, Runs[i])] = Runs[j].sim_name

---------------------------------------------------------------------------
(* C27: a field that is not numeric *)

\* the fields whose value in the first run is not a number
NonNumericFields ==
    {k \in DOMAIN d.config_data_keys :
        ~isNumber(item(Runs[1].config_data, d.config_data_keys[k]))}

\* C27: when the first run's value of a field is not a number, the Dataset
\* is built, the field's axis is 0..N-1 for N runs, snapping is off and no
\* resolvers were built.
C27_NonNumericField ==
    NonNumericFields # {} =>
        /\ d.index # <<>>
        /\ \A k \in NonNumericFields :
              d.axes[k].data = [i \in DOMAIN Runs |-> i - 1]
        /\ ~d.interpolate_axes
        /\ ~d.axes_int.set

---------------------------------------------------------------------------
(* C28: lookups when snapping is off *)

\* C28: on a Dataset with snapping off a snapped lookup with a query of the
\* right length raises ValueError and resolves nothing, while an exact
\* lookup of a built key and an index lookup of built positions return.
C28_SnappingDisabled ==
    ~d.interpolate_axes /\ ret.op = "get_path" /\ Len(ret.params) = Len(d.axes) =>
        /\ ret.method = "interpolated" => ret.out = Raise("ValueError")
        /\ ret.method = "exact" /\ tuple(ret.params) \in DOMAIN d.index =>
              ret.out.raised = ""
        /\ ret.method = "index" => ret.out.raised \in {"", "KeyError", "IndexError"}


---------------------------------------------------------------------------
(* C29: the index keys and the axes *)

\* C29: every key of the index has, in each position, a value of that
\* field's axis; so the index has at most product(shape) entries and every
\* entry is what an index lookup of some in-range positions returns.
C29_IndexWithinAxes ==
    /\ \A key \in DOMAIN d.index : \A i \in DOMAIN key :
          key[i] \in Range(d.axes[i].data)
    /\ Cardinality(DOMAIN d.index) <= Product(shape(d))
    /\ \A key \in DOMAIN d.index : \E p \in Positions(d) :
          get_path(d, AsInts(p), "index") =
              [raised |-> "", parameters |-> key,
               path |-> PathJoin(d.directory, d.index[key])]

====
